---- MODULE Spec2Model ----
(***************************************************************************)
(* Model of gymfc's Gazebo world plugin FlightControllerPlugin             *)
(* (gymfc/envs/assets/gazebo/plugins/FlightControllerPlugin.cpp).          *)
(*                                                                         *)
(* Four kinds of execution context are modelled:                           *)
(*   - the thread that calls Load (bootstrap) and, on teardown, the        *)
(*     destructor,                                                         *)
(*   - the control-loop thread running LoopThread,                         *)
(*   - Gazebo's transport threads, which run ImuCallback and               *)
(*     EscSensorCallback for every message published by a tick.            *)
(* The external agent (the peer of the UDP socket) and the simulated       *)
(* world are the environment.                                              *)
(*                                                                         *)
(* Angular velocities are integers in units of 0.001 rad/s.                *)
(***************************************************************************)
EXTENDS Integers, Sequences, FiniteSets, TLC

\* ------------------------------------------------------------------ bounds
MaxActuators == 1
MaxSensorList == 2
MaxPending == 1
CountCap == 1
TickCap == 2
\* the world clock is counted up to TimeCap ticks past the last ResetTime
TimeCap == 1

\* ---------------------------------------------------------- program constants
\* double error = 0.017 (FlushSensors)
Tolerance == 17
\* add_imu_angular_velocity_rpy(1) (InitState)
Sentinel == 1000
\* numSensorCallbacks before CalculateCallbackCount adds to it
NumSensorCallbacksInit == 0

\* -------------------------------------------------------------- environment
\* Tokens that may appear in the comma-separated sensor list.
Tokens == {"imu", "ESC", "gps"}
TokenRank == [t \in Tokens |-> CASE t = "imu" -> 1 [] t = "ESC" -> 2 [] OTHER -> 3]
\* The lists of at most MaxSensorList tokens, one per multiset of tokens: the
\* loops over the list (Load 159-175, CalculateCallbackCount 542-553) add and
\* subscribe per element, whatever the order.
SensorLists ==
  {l \in UNION {[1..n -> Tokens] : n \in 0..MaxSensorList} :
     \A i \in 1..(Len(l) - 1) : TokenRank[l[i]] <= TokenRank[l[i + 1]]}

\* Angular-velocity readings the simulated IMU may publish.
Readings == {<<0, 0, 17>>, <<-18, 0, 17>>}

\* Datagrams the agent may send: a well-formed STEP action, a well-formed
\* RESET action, and a buffer that does not decode as an Action.
Datagrams == {"STEP", "RESET", "BAD"}
NoDatagram == "none"
\* Addresses datagrams may be sent from.
Peers == {"a", "b"}

VARIABLES
  loadPc,               \* position of the thread running Load
  loadVarsFailed,       \* which early return LoadVars took ("none" if none)
  bound,                \* the socket is bound (Bind returned true)
  digitalTwinSDF,       \* the path of the digital twin was read
  numActuators,
  supportedSensors,     \* sequence over {"IMU","ESC"}
  numSensorCallbacks,
  imuSub,               \* imuSub holds a live subscription
  escSub,               \* escSub: sequence of the ESC topic indices subscribed
  state,                \* the Sensor State Store (this->state).  Of the IMU's
                        \* orientation and acceleration and of the ESC readings
                        \* only the entries that exist are modelled, not the
                        \* values the callbacks set them to.
  src,                  \* per channel of the store, where its data comes from:
                        \* "new" (the most recent tick) or "old" (an earlier
                        \* tick, or InitState)
  pc,                   \* position of the control-loop thread
  ac_received,          \* LoopThread's local
  action,               \* this->action
  remaddr,              \* this->remaddr: the address recvfrom last filled in
  mutexOwner,           \* g_CallbackMutex: "none", "ctrl" or "cb"
  sensorCallbackCount,
  cb,                   \* the IMU callback that holds the mutex, if any
  imuQ,                 \* IMU messages published and not yet delivered
  escQ,                 \* per ESC topic: messages not yet delivered to all of
                        \* the topic's subscriptions
  twin,                 \* outcome of LoadDigitalTwin
  bootLog,              \* history: the steps of the bootstrap, in the order made
  dtorPc,               \* position of the thread running the destructor
  simRate,              \* angular velocity the simulated IMU measured at the last tick
  simTime,              \* world->SimTime(), in ticks since the last ResetTime
  \* history variables, of the current iteration of LoopThread's loop (from
  \* one call of ReceiveAction to the next)
  lastDatagram,         \* the datagram ReceiveAction got, if any
  lastPeer,             \* the address that datagram was sent from
  flushed,              \* a settle sequence has replied in an earlier iteration
  woke,                 \* the store when the wait of WaitForSensorsThenSend completed
  log,                  \* what the iteration has done so far, each kind of
                        \* operation at its first occurrence
  ticks,                \* world Step(1) calls
  cmds,                 \* motor commands published
  replies,              \* States sent
  sent,                 \* the State sent
  unblocks,             \* times the wait of WaitForSensorsThenSend completed
  firstSettled,         \* the tick that first published a settled reading
  \* history variable, of the current arm
  signals               \* counter increments since ResetCallbackCount

vars == <<bootLog, dtorPc, log, loadPc, loadVarsFailed, bound, digitalTwinSDF, numActuators,
          supportedSensors, numSensorCallbacks, imuSub, escSub, state, src, pc,
          ac_received, action, remaddr, mutexOwner,
          sensorCallbackCount, cb, imuQ, escQ, twin, simRate, simTime,
          lastDatagram,
          lastPeer, flushed, woke, ticks, cmds, replies, sent, unblocks,
          firstSettled, signals>>

bootVars == <<bootLog, dtorPc, loadPc, loadVarsFailed, bound, digitalTwinSDF, numActuators,
              supportedSensors, numSensorCallbacks, imuSub, escSub>>
histVars == <<lastDatagram, lastPeer, flushed, woke, log, ticks, cmds, replies, sent, unblocks,
              firstSettled, signals>>

\* ------------------------------------------------------------------ helpers
Abs(x) == IF x < 0 THEN -x ELSE x
Range(s) == {s[i] : i \in 1..Len(s)}
Sat(n, cap) == IF n < cap THEN n + 1 ELSE n
\* the history h with event e added, if it is not there yet
Logged(h, e) == IF e \in Range(h) THEN h ELSE Append(h, e)

\* boost::iequals on the tokens of the model
ToLower(s) == CASE s = "IMU" -> "imu" [] s = "ESC" -> "esc" [] OTHER -> s
iequals(s, t) == ToLower(s) = ToLower(t)

SensorEnabled(sensor) == \E i \in 1..Len(supportedSensors) : supportedSensors[i] = sensor

NoState == [for |-> "none"]
NoPeer == "none"
IdleCb == [pc |-> "idle"]

Init ==
  /\ loadPc = "LoadVars"
  /\ loadVarsFailed = "none"
  /\ bound = FALSE
  /\ digitalTwinSDF = FALSE
  /\ numActuators \in 0..MaxActuators
  /\ supportedSensors = <<>>
  /\ numSensorCallbacks = NumSensorCallbacksInit
  /\ imuSub = FALSE
  /\ escSub = <<>>
  /\ state = [imu_angular_velocity_rpy |-> <<>>,
              imu_linear_acceleration_xyz |-> <<>>,
              imu_orientation_quat |-> <<>>,
              esc_motor_angular_velocity |-> <<>>,
              esc_temperature |-> <<>>,
              esc_current |-> <<>>,
              esc_voltage |-> <<>>,
              sim_time |-> 0,
              status_code |-> "unset"]
  /\ src = [imu |-> "old", esc |-> <<>>]
  /\ pc = "unstarted"
  /\ ac_received = FALSE
  /\ action = [world_control |-> "STEP"]
  /\ remaddr = NoPeer
  /\ mutexOwner = "none"
  /\ sensorCallbackCount = 0
  /\ cb = IdleCb
  /\ imuQ = <<>>
  /\ escQ = <<>>
  /\ twin = "unloaded"
  /\ simRate = <<0, 0, 17>>
  /\ simTime = 0
  /\ lastDatagram = NoDatagram
  /\ lastPeer = NoPeer
  /\ flushed = FALSE
  /\ woke = NoState
  /\ log = <<>>
  /\ bootLog = <<>>
  /\ dtorPc = "alive"
  /\ ticks = 0
  /\ cmds = 0
  /\ replies = 0
  /\ sent = NoState
  /\ signals = 0
  /\ unblocks = 0
  /\ firstSettled = 0

\* ---------------------------------------------------------------- bootstrap
\* LoadVars, lines 234-250: the recognised names of the list, in order
ParseSensors(list) ==
  LET known == SelectSeq(list, LAMBDA s : iequals(s, "imu") \/ iequals(s, "esc"))
  IN  [i \in 1..Len(known) |-> IF iequals(known[i], "imu") THEN "IMU" ELSE "ESC"]

\* LoadVars: Bind, then the three required environment variables (each is set
\* or not, with a value); every failure logs and returns (LoadVars is void).
LoadVars ==
  /\ loadPc = "LoadVars"
  /\ dtorPc = "alive"
  /\ \E bindOk \in BOOLEAN, twinEnv \in BOOLEAN,
        motorsSet \in BOOLEAN, motorsEnv \in 0..MaxActuators,
        sensorsSet \in BOOLEAN, sensorsEnv \in SensorLists :
       IF ~bindOk
       THEN /\ loadVarsFailed' = "bind"
            /\ bootLog' = bootLog \o <<"bind">>
            /\ UNCHANGED <<bound, digitalTwinSDF, numActuators, supportedSensors>>
       ELSE /\ bound' = TRUE
            /\ bootLog' = bootLog \o <<"bind", "config">>
            /\ IF ~twinEnv
               THEN /\ loadVarsFailed' = "twin"
                    /\ UNCHANGED <<digitalTwinSDF, numActuators, supportedSensors>>
               ELSE /\ digitalTwinSDF' = TRUE
                    /\ IF ~motorsSet
                       THEN /\ loadVarsFailed' = "motors"
                            /\ UNCHANGED <<numActuators, supportedSensors>>
                       ELSE /\ numActuators' = motorsEnv
                            /\ IF ~sensorsSet
                               THEN /\ loadVarsFailed' = "sensors"
                                    /\ UNCHANGED supportedSensors
                               ELSE /\ loadVarsFailed' = "none"
                                    /\ supportedSensors' = ParseSensors(sensorsEnv)
  /\ loadPc' = "CalculateCallbackCount"
  /\ UNCHANGED dtorPc
  /\ UNCHANGED <<numSensorCallbacks, imuSub, escSub, state, src, pc, ac_received,
                 action, remaddr, mutexOwner, sensorCallbackCount, cb, imuQ, escQ,
                 twin, simRate, simTime>>
  /\ UNCHANGED histVars

\* The loop of CalculateCallbackCount over supportedSensors, from count acc.
RECURSIVE CallbackCount(_, _, _)
CallbackCount(sensors, n, acc) ==
  IF sensors = <<>> THEN acc
  ELSE CallbackCount(Tail(sensors), n,
                     IF Head(sensors) = "IMU" THEN acc + 1 ELSE acc + n)

CalculateCallbackCount ==
  /\ loadPc = "CalculateCallbackCount"
  /\ numSensorCallbacks' = CallbackCount(supportedSensors, numActuators, numSensorCallbacks)
  /\ loadPc' = "Subscribe"
  /\ UNCHANGED dtorPc
  /\ UNCHANGED bootLog
  /\ UNCHANGED <<loadVarsFailed, bound, digitalTwinSDF, numActuators,
                 supportedSensors, imuSub, escSub, state, src, pc, ac_received,
                 action, remaddr, mutexOwner, sensorCallbackCount, cb, imuQ, escQ,
                 twin, simRate, simTime>>
  /\ UNCHANGED histVars

\* Load, lines 159-175.  imuSub is one handle: assigning it again drops the
\* subscription it held.  escSub grows by one subscription per actuator for
\* every ESC entry of the list.
RECURSIVE EscSubscriptions(_, _)
EscSubscriptions(sensors, n) ==
  IF sensors = <<>> THEN <<>>
  ELSE (IF Head(sensors) = "ESC" THEN [i \in 1..n |-> i - 1] ELSE <<>>)
       \o EscSubscriptions(Tail(sensors), n)

Subscribe ==
  /\ loadPc = "Subscribe"
  /\ imuSub' = SensorEnabled("IMU")
  /\ escSub' = EscSubscriptions(supportedSensors, numActuators)
  /\ escQ' = [t \in 1..(IF escSub' = <<>> THEN 0 ELSE numActuators) |-> <<>>]
  /\ loadPc' = "InitState"
  /\ UNCHANGED dtorPc
  /\ bootLog' = bootLog \o <<"subscribe">>
  /\ UNCHANGED <<loadVarsFailed, bound, digitalTwinSDF, numActuators,
                 supportedSensors, numSensorCallbacks, state, src, pc,
                 ac_received, action, remaddr, mutexOwner, sensorCallbackCount,
                 cb, imuQ, twin, simRate, simTime>>
  /\ UNCHANGED histVars

\* InitState adds to the repeated fields of the store, whatever sensors are
\* enabled: 3 + 3 + 4 IMU entries and numActuators entries per ESC array.
InitState ==
  /\ loadPc = "InitState"
  /\ state' = [state EXCEPT
                 !.imu_angular_velocity_rpy = @ \o <<Sentinel, Sentinel, Sentinel>>,
                 !.imu_linear_acceleration_xyz = @ \o <<0, 0, 0>>,
                 !.imu_orientation_quat = @ \o <<0, 0, 0, 0>>,
                 !.esc_motor_angular_velocity = @ \o [i \in 1..numActuators |-> 100],
                 !.esc_temperature = @ \o [i \in 1..numActuators |-> 10000],
                 !.esc_current = @ \o [i \in 1..numActuators |-> -1],
                 !.esc_voltage = @ \o [i \in 1..numActuators |-> -1]]
  /\ src' = [imu |-> "old", esc |-> [i \in 1..numActuators |-> "old"]]
  /\ loadPc' = "StartLoop"
  /\ UNCHANGED dtorPc
  /\ bootLog' = bootLog \o <<"seed">>
  /\ UNCHANGED <<loadVarsFailed, bound, digitalTwinSDF, numActuators,
                 supportedSensors, numSensorCallbacks, imuSub, escSub, pc,
                 ac_received, action, remaddr, mutexOwner, sensorCallbackCount,
                 cb, imuQ, escQ, twin, simRate, simTime>>
  /\ UNCHANGED histVars

\* Load, lines 178-182: advertise, pause the world, start LoopThread.
StartLoop ==
  /\ loadPc = "StartLoop"
  /\ loadPc' = "done"
  /\ UNCHANGED dtorPc
  /\ bootLog' = bootLog \o <<"pause", "start">>
  /\ pc' = "LoadDigitalTwin"
  /\ UNCHANGED <<loadVarsFailed, bound, digitalTwinSDF, numActuators,
                 supportedSensors, numSensorCallbacks, imuSub, escSub, state,
                 src, ac_received, action, remaddr, mutexOwner,
                 sensorCallbackCount, cb, imuQ, escQ, twin, simRate, simTime>>
  /\ UNCHANGED histVars

\* LoadDigitalTwin returns early on every failure and LoopThread goes on.
\*   "absent":   no model was inserted (invalid file, no model element)
\*   "inserted": InsertModelSDF put the model, and its sensors, in the world
\*               (with or without the ball joint of lines 436-451)
LoadDigitalTwin ==
  /\ pc = "LoadDigitalTwin"
  /\ \E outcome \in {"absent", "inserted"} :
       /\ (~digitalTwinSDF => outcome = "absent")
       /\ twin' = outcome
       /\ bootLog' = IF outcome = "inserted" THEN bootLog \o <<"twin">> ELSE bootLog
  /\ pc' = "ReceiveAction"
  /\ UNCHANGED <<dtorPc, loadPc, loadVarsFailed, bound, digitalTwinSDF,
                 numActuators, supportedSensors, numSensorCallbacks, imuSub, escSub>>
  /\ UNCHANGED <<state, src, ac_received, action, remaddr, mutexOwner,
                 sensorCallbackCount, cb, imuQ, escQ, simRate, simTime>>
  /\ UNCHANGED histVars

\* ------------------------------------------------------------------- world
Settled(rate) == \A i \in 1..3 : Abs(rate[i]) <= Tolerance

\* Data that came from the most recent tick comes, after one more tick, from
\* an earlier one.
Age(s) == "old"
AgeMsgs(q) == [i \in 1..Len(q) |-> [q[i] EXCEPT !.src = "old"]]

\* The subscriptions escSub holds of the topic of ESC id
Subscriptions(id) == Cardinality({j \in 1..Len(escSub) : escSub[j] = id})

\* A sensor publishes only if the model that carries it is in the world.
Publishing == twin = "inserted"

\* Messages reach the subscriptions until gazebo::transport::fini().
TransportUp == dtorPc = "alive"

\* world->Step(1): one tick.  Every sensor of the digital twin publishes one
\* message, which every live subscription of its topic will get in a callback;
\* the transport node hands a message to the subscriptions of its topic one
\* after the other.
Step1 ==
  /\ Len(imuQ) < MaxPending
  /\ \A j \in 1..Len(escQ) : Len(escQ[j]) < MaxPending
  /\ \E r \in Readings :
       /\ simRate' = r
       /\ imuQ' = IF Publishing /\ imuSub /\ TransportUp
                  THEN Append(AgeMsgs(imuQ), [rate |-> r, src |-> "new"])
                  ELSE AgeMsgs(imuQ)
       /\ firstSettled' = IF firstSettled = 0 /\ Settled(r)
                          THEN Sat(ticks, TickCap) ELSE firstSettled
  /\ escQ' = [t \in 1..Len(escQ) |->
                IF Publishing /\ TransportUp
                THEN Append(AgeMsgs(escQ[t]), [src |-> "new", left |-> Subscriptions(t - 1)])
                ELSE AgeMsgs(escQ[t])]
  /\ src' = [imu |-> Age(src.imu), esc |-> [i \in 1..Len(src.esc) |-> Age(src.esc[i])]]
  /\ cb' = IF cb.pc = "idle" THEN cb ELSE [cb EXCEPT !.msg.src = "old"]
  /\ ticks' = Sat(ticks, TickCap)

\* The clock after world->Step(1)
Tick(t) == Sat(t, TimeCap)

\* SoftReset, line 349: world->ResetTime().  (ResetEntities and
\* ResetPhysicsStates put the models back; what the sensors read at the ticks
\* that follow stays any of Readings.)
SoftReset(t) == 0

\* ------------------------------------------------------------ control loop
\* Action::ParseFromString: the contents of this->action afterwards.  The
\* message is cleared and then filled field by field, so a buffer that fails
\* to parse leaves the default command or the one parsed before the failure.
ParseFromString(d) ==
  CASE d = "STEP"  -> {[world_control |-> "STEP"]}
    [] d = "RESET" -> {[world_control |-> "RESET"]}
    [] OTHER       -> {[world_control |-> "STEP"], [world_control |-> "RESET"]}

\* What recvfrom (line 610) may return within its timeout: a datagram and
\* the address it was sent from, or nothing.  A socket that was not bound
\* receives nothing.
Arrivals ==
  {[data |-> NoDatagram, from |-> NoPeer]} \cup
  (IF bound THEN [data : Datagrams, from : Peers] ELSE {})

\* ReceiveAction: false only when recvfrom fails, which leaves remaddr as it
\* was; the result of ParseFromString is not looked at.
ReceiveAction ==
  /\ pc = "ReceiveAction"
  /\ \E got \in Arrivals :
       /\ IF got.data = NoDatagram
          THEN /\ ac_received' = FALSE
               /\ UNCHANGED <<action, remaddr>>
          ELSE /\ remaddr' = got.from
               /\ action' \in ParseFromString(got.data)
               /\ ac_received' = TRUE
       /\ lastDatagram' = got.data
       /\ lastPeer' = got.from
  /\ pc' = "Dispatch"
  /\ flushed' = (flushed \/ sent.for = "RESET")
  /\ woke' = NoState
  /\ log' = <<>>
  /\ ticks' = 0
  /\ cmds' = 0
  /\ replies' = 0
  /\ sent' = NoState
  /\ unblocks' = 0
  /\ firstSettled' = 0
  /\ UNCHANGED signals
  /\ UNCHANGED bootVars
  /\ UNCHANGED <<state, src, mutexOwner, sensorCallbackCount, cb, imuQ, escQ,
                 twin, simRate, simTime>>

Dispatch_NoSkip ==
  /\ pc = "Dispatch"
  /\ pc' = IF action.world_control = "RESET" THEN "FlushSensors"
           ELSE "ResetCallbackCount"
  /\ UNCHANGED bootVars
  /\ UNCHANGED <<state, src, ac_received, action, remaddr,
                 mutexOwner, sensorCallbackCount, cb, imuQ, escQ, twin, simRate, simTime>>
  /\ UNCHANGED histVars

\* LoopThread, lines 497-515
Dispatch ==
  /\ pc = "Dispatch"
  /\ pc' = IF ~ac_received THEN "ReceiveAction"
           ELSE IF action.world_control = "RESET" THEN "FlushSensors"
           ELSE "ResetCallbackCount"
  /\ UNCHANGED bootVars
  /\ UNCHANGED <<state, src, ac_received, action, remaddr, mutexOwner,
                 sensorCallbackCount, cb, imuQ, escQ, twin, simRate, simTime>>
  /\ UNCHANGED histVars

\* SendState: serialise this->state and send it to remaddr
SendState ==
  /\ sent' = [for |-> action.world_control,
              to |-> remaddr,
              imu_angular_velocity_rpy |-> state.imu_angular_velocity_rpy,
              imu_linear_acceleration_xyz |-> state.imu_linear_acceleration_xyz,
              imu_orientation_quat |-> state.imu_orientation_quat,
              esc_motor_angular_velocity |-> state.esc_motor_angular_velocity,
              esc_temperature |-> state.esc_temperature,
              esc_current |-> state.esc_current,
              esc_voltage |-> state.esc_voltage,
              sim_time |-> state.sim_time,
              status_code |-> state.status_code,
              src |-> src]
  /\ replies' = Sat(replies, 2)
  /\ log' = Logged(log, "send")

\* FlushSensors, line 463: the first SoftReset
FlushSensors ==
  /\ pc = "FlushSensors"
  /\ simTime' = SoftReset(simTime)
  /\ pc' = "SettleCheck1"
  /\ UNCHANGED bootVars
  /\ UNCHANGED <<state, src, ac_received, action, remaddr, mutexOwner,
                 sensorCallbackCount, cb, imuQ, escQ, twin, simRate>>
  /\ UNCHANGED histVars

\* FlushSensors, lines 470-474: the condition reads the store one component
\* at a time, without the mutex; || stops at the first true operand.
SettleCheckPc == <<"SettleCheck1", "SettleCheck2", "SettleCheck3">>
NotSettledAt(i) ==
  \/ (i = 1 /\ Len(state.imu_angular_velocity_rpy) < 2)
  \/ Abs(state.imu_angular_velocity_rpy[i]) > Tolerance

SettleCheck(i) ==
  /\ pc = SettleCheckPc[i]
  /\ pc' = IF NotSettledAt(i) THEN "SettleStep"
           ELSE IF i < 3 THEN SettleCheckPc[i + 1]
           ELSE "ResetStamp"
  /\ UNCHANGED bootVars
  /\ UNCHANGED <<state, src, ac_received, action, remaddr, mutexOwner,
                 sensorCallbackCount, cb, imuQ, escQ, twin, simRate, simTime>>
  /\ UNCHANGED histVars

SettleStep_NoSoftReset ==
  /\ pc = "SettleStep"
  /\ log' = Logged(log, "tick")
  /\ Step1
  /\ simTime' = Tick(simTime)
  /\ pc' = "SettleCheck1"
  /\ UNCHANGED bootVars
  /\ UNCHANGED <<state, ac_received, action, remaddr, mutexOwner,
                 sensorCallbackCount, twin>>
  /\ UNCHANGED <<lastDatagram, lastPeer, flushed, woke, cmds, replies, sent, signals, unblocks>>

\* FlushSensors, lines 478-479: Step(1), then SoftReset
SettleStep ==
  /\ pc = "SettleStep"
  /\ log' = Logged(log, "tick")
  /\ Step1
  /\ simTime' = SoftReset(Tick(simTime))
  /\ pc' = "SettleCheck1"
  /\ UNCHANGED bootVars
  /\ UNCHANGED <<state, ac_received, action, remaddr, mutexOwner,
                 sensorCallbackCount, twin>>
  /\ UNCHANGED <<lastDatagram, lastPeer, flushed, woke, cmds, replies, sent, signals, unblocks>>

\* LoopThread, lines 509-510
ResetStamp ==
  /\ pc = "ResetStamp"
  /\ state' = [state EXCEPT !.sim_time = simTime, !.status_code = "OK"]
  /\ pc' = "ResetSend"
  /\ UNCHANGED bootVars
  /\ UNCHANGED <<src, ac_received, action, remaddr, mutexOwner,
                 sensorCallbackCount, cb, imuQ, escQ, twin, simRate, simTime>>
  /\ log' = Logged(log, "stamp")
  /\ UNCHANGED <<lastDatagram, lastPeer, flushed, woke, ticks, cmds, replies,
                 sent, unblocks, firstSettled, signals>>

\* LoopThread, lines 511-512: SendState without the mutex
ResetSend ==
  /\ pc = "ResetSend"
  /\ SendState
  /\ pc' = "ReceiveAction"
  /\ UNCHANGED bootVars
  /\ UNCHANGED <<state, src, ac_received, action, remaddr, mutexOwner,
                 sensorCallbackCount, cb, imuQ, escQ, twin, simRate, simTime>>
  /\ UNCHANGED <<lastDatagram, lastPeer, flushed, woke, ticks, cmds, signals, unblocks, firstSettled>>

ResetCallbackCount_ArmMinusOne ==
  /\ pc = "ResetCallbackCount"
  /\ log' = Logged(log, "arm")
  /\ mutexOwner = "none"
  /\ sensorCallbackCount' = -1 * numSensorCallbacks - 1
  /\ signals' = 0
  /\ pc' = "Publish"
  /\ UNCHANGED bootVars
  /\ UNCHANGED <<state, src, ac_received, action, remaddr, mutexOwner, cb, imuQ,
                 escQ, twin, simRate, simTime>>
  /\ UNCHANGED <<lastDatagram, lastPeer, flushed, woke, ticks, cmds, replies, sent, unblocks, firstSettled>>

\* ResetCallbackCount: arm the counter under the mutex
ResetCallbackCount ==
  /\ pc = "ResetCallbackCount"
  /\ log' = Logged(log, "arm")
  /\ mutexOwner = "none"
  /\ sensorCallbackCount' = -1 * numSensorCallbacks
  /\ signals' = 0
  /\ pc' = "Publish"
  /\ UNCHANGED bootVars
  /\ UNCHANGED <<state, src, ac_received, action, remaddr, mutexOwner, cb, imuQ,
                 escQ, twin, simRate, simTime>>
  /\ UNCHANGED <<lastDatagram, lastPeer, flushed, woke, ticks, cmds, replies, sent, unblocks, firstSettled>>

\* LoopThread, lines 518-525: one MotorCommand with numActuators entries
Publish ==
  /\ pc = "Publish"
  /\ log' = Logged(log, "cmd")
  /\ cmds' = Sat(cmds, 2)
  /\ pc' = "Step"
  /\ UNCHANGED bootVars
  /\ UNCHANGED <<state, src, ac_received, action, remaddr, mutexOwner,
                 sensorCallbackCount, cb, imuQ, escQ, twin, simRate, simTime>>
  /\ UNCHANGED <<lastDatagram, lastPeer, flushed, woke, ticks, replies, sent, signals, unblocks, firstSettled>>

Step_NoTick ==
  /\ pc = "Step"
  /\ pc' = "Stamp"
  /\ UNCHANGED bootVars
  /\ UNCHANGED <<state, src, ac_received, action, remaddr, mutexOwner,
                 sensorCallbackCount, cb, imuQ, escQ, twin, simRate, simTime>>
  /\ UNCHANGED histVars

\* LoopThread, line 527
Step ==
  /\ pc = "Step"
  /\ log' = Logged(log, "tick")
  /\ Step1
  /\ simTime' = Tick(simTime)
  /\ pc' = "Stamp"
  /\ UNCHANGED bootVars
  /\ UNCHANGED <<state, ac_received, action, remaddr, mutexOwner,
                 sensorCallbackCount, twin>>
  /\ UNCHANGED <<lastDatagram, lastPeer, flushed, woke, cmds, replies, sent, signals, unblocks>>

\* WaitForSensorsThenSend, lines 557-558: stamped before the mutex is taken
Stamp ==
  /\ pc = "Stamp"
  /\ state' = [state EXCEPT !.sim_time = simTime, !.status_code = "OK"]
  /\ pc' = "Lock"
  /\ UNCHANGED bootVars
  /\ UNCHANGED <<src, ac_received, action, remaddr, mutexOwner,
                 sensorCallbackCount, cb, imuQ, escQ, twin, simRate, simTime>>
  /\ log' = Logged(log, "stamp")
  /\ UNCHANGED <<lastDatagram, lastPeer, flushed, woke, ticks, cmds, replies,
                 sent, unblocks, firstSettled, signals>>

\* WaitForSensorsThenSend, line 560, and the re-acquisition at the end of
\* callbackCondition.wait
Lock ==
  /\ pc \in {"Lock", "Wakeup"}
  /\ mutexOwner = "none"
  /\ mutexOwner' = "ctrl"
  /\ pc' = "WaitLoop"
  /\ UNCHANGED bootVars
  /\ UNCHANGED <<state, src, ac_received, action, remaddr, sensorCallbackCount,
                 cb, imuQ, escQ, twin, simRate, simTime>>
  /\ UNCHANGED histVars

WaitCondition_OffByOne == sensorCallbackCount < -1

\* WaitForSensorsThenSend, lines 561-565: the loop condition
WaitCondition == sensorCallbackCount < 0

WaitLoop_Unlocks ==
  /\ pc = "WaitLoop"
  /\ mutexOwner' = "none"
  /\ IF WaitCondition
     THEN /\ pc' = "Waiting"
          /\ UNCHANGED <<unblocks, woke, log>>
     ELSE /\ pc' = "StepSend"
          /\ unblocks' = Sat(unblocks, 2)
          /\ woke' = [state |-> state, src |-> src]
          /\ log' = Logged(log, "wait")
  /\ UNCHANGED bootVars
  /\ UNCHANGED <<state, src, ac_received, action, remaddr,
                 sensorCallbackCount, cb, imuQ, escQ, twin, simRate, simTime>>
  /\ UNCHANGED <<lastDatagram, lastPeer, flushed, ticks, cmds, replies, sent,
                 signals, firstSettled>>

\* either enter callbackCondition.wait, which releases the mutex, or leave the loop
WaitLoop ==
  /\ pc = "WaitLoop"
  /\ IF WaitCondition
     THEN /\ mutexOwner' = "none"
          /\ pc' = "Waiting"
          /\ UNCHANGED <<unblocks, woke, log>>
     ELSE /\ pc' = "StepSend"
          /\ unblocks' = Sat(unblocks, 2)
          /\ woke' = [state |-> state, src |-> src]
          /\ log' = Logged(log, "wait")
          /\ UNCHANGED mutexOwner
  /\ UNCHANGED bootVars
  /\ UNCHANGED <<state, src, ac_received, action, remaddr, sensorCallbackCount,
                 cb, imuQ, escQ, twin, simRate, simTime>>
  /\ UNCHANGED <<lastDatagram, lastPeer, flushed, ticks, cmds, replies, sent,
                 signals, firstSettled>>

\* a condition variable may wake its waiter without a notification
SpuriousWakeup ==
  /\ pc = "Waiting"
  /\ pc' = "Wakeup"
  /\ UNCHANGED bootVars
  /\ UNCHANGED <<state, src, ac_received, action, remaddr, mutexOwner,
                 sensorCallbackCount, cb, imuQ, escQ, twin, simRate, simTime>>
  /\ UNCHANGED histVars

\* WaitForSensorsThenSend, lines 567-568: SendState, then the lock's scope ends
StepSend ==
  /\ pc = "StepSend"
  /\ SendState
  /\ mutexOwner' = "none"
  /\ pc' = "ReceiveAction"
  /\ UNCHANGED bootVars
  /\ UNCHANGED <<state, src, ac_received, action, remaddr, sensorCallbackCount,
                 cb, imuQ, escQ, twin, simRate, simTime>>
  /\ UNCHANGED <<lastDatagram, lastPeer, flushed, woke, ticks, cmds, signals, unblocks, firstSettled>>

\* --------------------------------------------------------------- callbacks
\* sensorCallbackCount++ ; callbackCondition.notify_all()
SignalArrival ==
  /\ sensorCallbackCount' = Sat(sensorCallbackCount, CountCap)
  /\ signals' = Sat(signals, numSensorCallbacks + CountCap)
  /\ pc' = IF pc = "Waiting" THEN "Wakeup" ELSE pc

\* ImuCallback, line 303 and line 306
ImuCallbackBegin ==
  /\ mutexOwner = "none"
  /\ imuQ # <<>>
  /\ mutexOwner' = "cb"
  /\ cb' = [pc |-> "rpy1", msg |-> Head(imuQ)]
  /\ imuQ' = Tail(imuQ)
  /\ state' = [state EXCEPT !.imu_angular_velocity_rpy[1] = Head(imuQ).rate[1]]
  /\ UNCHANGED bootVars
  /\ UNCHANGED <<src, pc, ac_received, action, remaddr, sensorCallbackCount,
                 escQ, twin, simRate, simTime>>
  /\ UNCHANGED histVars

\* ImuCallback, line 307
ImuCallbackMid ==
  /\ cb.pc = "rpy1"
  /\ cb' = [cb EXCEPT !.pc = "rpy2"]
  /\ state' = [state EXCEPT !.imu_angular_velocity_rpy[2] = cb.msg.rate[2]]
  /\ UNCHANGED bootVars
  /\ UNCHANGED <<src, pc, ac_received, action, remaddr, mutexOwner,
                 sensorCallbackCount, imuQ, escQ, twin, simRate, simTime>>
  /\ UNCHANGED histVars

\* ImuCallback, lines 308-322
ImuCallbackEnd ==
  /\ cb.pc = "rpy2"
  /\ state' = [state EXCEPT !.imu_angular_velocity_rpy[3] = cb.msg.rate[3]]
  /\ src' = [src EXCEPT !.imu = cb.msg.src]
  /\ SignalArrival
  /\ cb' = IdleCb
  /\ mutexOwner' = "none"
  /\ UNCHANGED bootVars
  /\ UNCHANGED <<ac_received, action, remaddr, imuQ, escQ, twin, simRate, simTime>>
  /\ UNCHANGED <<lastDatagram, lastPeer, flushed, woke, log, ticks, cmds, replies, sent, unblocks, firstSettled>>

\* EscSensorCallback of the next subscription to get the oldest message of
\* the topic of ESC id
EscSensorCallback(id) ==
  /\ mutexOwner = "none"
  /\ escQ[id + 1] # <<>>
  /\ LET msg == Head(escQ[id + 1])
     IN  /\ src' = [src EXCEPT !.esc[id + 1] = msg.src]
         /\ escQ' = [escQ EXCEPT ![id + 1] =
                       IF msg.left > 1
                       THEN <<[msg EXCEPT !.left = msg.left - 1]>> \o Tail(escQ[id + 1])
                       ELSE Tail(escQ[id + 1])]
  /\ SignalArrival
  /\ UNCHANGED bootVars
  /\ UNCHANGED <<state, ac_received, action, remaddr, mutexOwner, cb, imuQ, twin, simRate, simTime>>
  /\ UNCHANGED <<lastDatagram, lastPeer, flushed, woke, log, ticks, cmds, replies, sent, unblocks, firstSettled>>

\* -------------------------------------------------------------- destructor
\* ~FlightControllerPlugin, line 138: gazebo::transport::fini().  Teardown is
\* taken to begin before Load is called, or after it while the control loop
\* is between two actions and no callback is running.
DtorFini ==
  /\ dtorPc = "alive"
  /\ \/ loadPc = "LoadVars"
     \/ loadPc = "done" /\ pc = "ReceiveAction" /\ cb = IdleCb
  /\ dtorPc' = "join"
  /\ imuQ' = <<>>
  /\ escQ' = [t \in 1..Len(escQ) |-> <<>>]
  /\ UNCHANGED <<bootLog, loadPc, loadVarsFailed, bound, digitalTwinSDF,
                 numActuators, supportedSensors, numSensorCallbacks, imuSub, escSub>>
  /\ UNCHANGED <<state, src, pc, ac_received, action, remaddr,
                 mutexOwner, sensorCallbackCount, cb, twin, simRate, simTime>>
  /\ UNCHANGED histVars

\* ~FlightControllerPlugin, line 141: callbackLoopThread.join() returns when
\* the thread has finished, or at once if it was never started.  LoopThread
\* has no way out of its while (1).
DtorJoin ==
  /\ dtorPc = "join"
  /\ pc = "unstarted"
  /\ dtorPc' = "destroyed"
  /\ UNCHANGED <<bootLog, loadPc, loadVarsFailed, bound, digitalTwinSDF,
                 numActuators, supportedSensors, numSensorCallbacks, imuSub, escSub>>
  /\ UNCHANGED <<state, src, pc, ac_received, action, remaddr,
                 mutexOwner, sensorCallbackCount, cb, imuQ, escQ, twin, simRate, simTime>>
  /\ UNCHANGED histVars

\* --------------------------------------------------------------------- spec
Boot == LoadVars \/ CalculateCallbackCount \/ Subscribe \/ InitState \/ StartLoop
ControlLoop ==
  \/ LoadDigitalTwin \/ ReceiveAction \/ Dispatch
  \/ FlushSensors \/ (\E i \in 1..3 : SettleCheck(i)) \/ SettleStep
  \/ ResetStamp \/ ResetSend
  \/ ResetCallbackCount \/ Publish \/ Step \/ Stamp \/ Lock \/ WaitLoop \/ StepSend
ImuCallback == ImuCallbackBegin \/ ImuCallbackMid \/ ImuCallbackEnd
EscCallbackOf(id) == id \in 0..(Len(escQ) - 1) /\ EscSensorCallback(id)
Callbacks == ImuCallback \/ (\E id \in 0..(Len(escQ) - 1) : EscCallbackOf(id))

Destructor == DtorFini \/ DtorJoin

Next == Boot \/ ControlLoop \/ Callbacks \/ SpuriousWakeup \/ Destructor

Spec == Init /\ [][Next]_vars

\* The control-loop thread and the transport threads that run the callbacks
\* are scheduled fairly: the control loop takes the step it is able to take,
\* and the callback of every topic gets the mutex when it is free again
\* and again; a destructor that was called goes on when it can.  Nothing is
\* assumed of the agent, nor of when teardown begins.
FairSpec ==
  /\ Spec
  /\ WF_vars(ControlLoop)
  /\ WF_vars(DtorJoin)
  /\ SF_vars(ImuCallback)
  /\ \A id \in 0..(MaxActuators - 1) : SF_vars(EscCallbackOf(id))

\* ==================================================================== claims
InStepWait == pc \in {"Stamp", "Lock", "WaitLoop", "Waiting", "Wakeup", "StepSend"}

\* C1: barrier.  After ResetCallbackCount armed the counter to
\* -numSensorCallbacks, the wait of WaitForSensorsThenSend completes at most
\* once, never while fewer than numSensorCallbacks signals happened
\* since the arm, and the control thread is never left blocked on the
\* condition variable once that many signals have happened.
C1_Barrier ==
  /\ unblocks <= 1
  /\ (unblocks = 1 => signals >= numSensorCallbacks)
  /\ (pc = "StepSend" => unblocks = 1)
  /\ (pc = "Waiting" => signals < numSensorCallbacks)

C1_Witness ==
  /\ pc = "StepSend"
  /\ numSensorCallbacks = 2
  /\ signals = 2
  /\ unblocks = 1

\* C2: between the receive of an action whose command is STEP and the send
\* of its State, world Step(1) is called exactly once: no tick before the
\* arm and the forward of the motor command, one tick from then on until the
\* next receive.
C2_OneTickPerStep ==
  /\ (pc \in {"ResetCallbackCount", "Publish", "Step"} => ticks = 0)
  /\ (InStepWait => ticks = 1)
  /\ (sent.for = "STEP" => ticks = 1)

C2_Witness ==
  /\ pc = "ReceiveAction"
  /\ sent.for = "STEP"
  /\ replies = 1
  /\ ticks = 1

\* The channels a State must carry fresh data of
ImuFresh(s) == SensorEnabled("IMU") => s.src.imu = "new"
EscFresh(s) == SensorEnabled("ESC") => \A i \in 1..numActuators : s.src.esc[i] = "new"

\* C3: a State sent in reply to a STEP holds, for the IMU and for every ESC
\* index, the data of the callback produced by that step's own tick.
C3_StepReplyIsFresh ==
  sent.for = "STEP" => ImuFresh(sent) /\ EscFresh(sent)

\* C4: a datagram that does not decode as an Action is no action: ReceiveAction
\* reports none, and no motor command, no tick and no State follow it.
C4_MalformedIsNoAction ==
  lastDatagram = "BAD" =>
    /\ (pc = "Dispatch" => ~ac_received)
    /\ cmds = 0
    /\ ticks = 0
    /\ replies = 0

\* C5: when LoadVars returned early on a failure, Load subscribes no sensor
\* and does not start the control-loop thread.
C5_FailedLoadVarsAborts ==
  loadVarsFailed # "none" => pc = "unstarted" /\ ~imuSub /\ escSub = <<>>

\* C6: provided the angular velocity the simulation measures is, from some
\* tick on, within the tolerance, every RESET that enters FlushSensors (of a
\* plugin that is not being torn down) is answered by one State with status
\* OK.
ResetReplied ==
  /\ pc = "ReceiveAction"
  /\ sent.for = "RESET"
  /\ sent.status_code = "OK"
  /\ replies = 1

C6_ResetIsAnswered ==
  (<>[]Settled(simRate)) => ((pc = "FlushSensors" /\ TransportUp) ~> ResetReplied)

\* C7: the State sent in reply to a RESET has its three angular-velocity
\* components within the tolerance of zero.
C7_ResetReplyIsSettled ==
  sent.for = "RESET" => Settled(sent.imu_angular_velocity_rpy)

\* C8: when a tick of the settle sequence is the first to publish a reading
\* within the tolerance, the sequence performs exactly that many ticks.
C8_SettleTickCount ==
  (sent.for = "RESET" /\ firstSettled > 0) => ticks = firstSettled

\* C9: the budget computed by CalculateCallbackCount is 1 for the IMU, if
\* enabled, plus numActuators for the ESC, if enabled.
C9_CallbackBudget ==
  loadPc \notin {"LoadVars", "CalculateCallbackCount"} =>
    numSensorCallbacks = (IF SensorEnabled("IMU") THEN 1 ELSE 0)
                       + (IF SensorEnabled("ESC") THEN numActuators ELSE 0)

\* C10: when every subscription gets the callbacks of every tick, every STEP
\* that armed the counter gets its State.
C10_StepIsAnswered ==
  (Publishing /\ TransportUp /\ pc = "ResetCallbackCount")
    ~> (pc = "ReceiveAction" /\ sent.for = "STEP")

\* C11: when the expected count is 0, the arm sets the counter to 0, the
\* control thread never waits on the condition variable (it finds the mutex
\* free and the loop condition false), and a STEP is answered after its one
\* tick without any callback having signalled.
C11_NoSensorNoWait ==
  (loadPc = "done" /\ numSensorCallbacks = 0) =>
    /\ pc \notin {"Waiting", "Wakeup"}
    /\ (pc \in {"Publish", "Step", "Stamp", "Lock", "WaitLoop", "StepSend"}
          => sensorCallbackCount = 0)
    /\ (pc = "Lock" => mutexOwner = "none")
    /\ (pc = "WaitLoop" => ~WaitCondition)
    /\ (sent.for = "STEP" => ticks = 1 /\ signals = 0 /\ unblocks = 1)

C11_Witness ==
  /\ numSensorCallbacks = 0
  /\ twin = "inserted"
  /\ pc = "ReceiveAction"
  /\ sent.for = "STEP"
  /\ ticks = 1
  /\ signals = 0
  /\ unblocks = 1

\* C12: in every State sent the three IMU fields are present exactly when
\* the IMU is enabled, the four ESC arrays are present exactly when the ESC
\* sensor is enabled (and there are actuators), and each ESC array has
\* numActuators entries.
ImuFields(s) ==
  {s.imu_angular_velocity_rpy, s.imu_orientation_quat, s.imu_linear_acceleration_xyz}
EscArrays(s) ==
  {s.esc_motor_angular_velocity, s.esc_temperature, s.esc_current, s.esc_voltage}

C12_StateFields ==
  (loadVarsFailed = "none" /\ sent.for # "none") =>
    /\ \A f \in ImuFields(sent) : (f # <<>>) <=> SensorEnabled("IMU")
    /\ numActuators > 0 =>
         \A a \in EscArrays(sent) : (a # <<>>) <=> SensorEnabled("ESC")
    /\ SensorEnabled("ESC") => \A a \in EscArrays(sent) : Len(a) = numActuators

\* C13: the first settle sequence that replies after InitState has made at
\* least one tick, whatever actions were served before it.
C13_FirstSettleWarmsUp ==
  (sent.for = "RESET" /\ ~flushed) => ticks >= 1

\* C14: once the destructor has torn the transport down and waits in join,
\* the join returns and destruction completes.
C14_TeardownCompletes ==
  (dtorPc = "join") ~> (dtorPc = "destroyed")

\* C15: when LoadVars succeeded and LoadDigitalTwin returned early without a
\* model in the world, the control loop serves no action: no motor command,
\* no tick, no State.
C15_NoServiceWithoutTwin ==
  (loadVarsFailed = "none" /\ twin = "absent") =>
    cmds = 0 /\ ticks = 0 /\ replies = 0

\* The positions at which the next step of the control thread reads or writes
\* the store without holding g_CallbackMutex
UnlockedAccess ==
  {"SettleCheck1", "SettleCheck2", "SettleCheck3", "ResetStamp", "ResetSend", "Stamp"}

\* C17: no callback is in the middle of writing the store while the control
\* thread is about to read or write it without the mutex.
C17_StoreUnderMutex ==
  pc \in UnlockedAccess => cb.pc = "idle"

\* C16: a State is sent only in an iteration whose ReceiveAction got a
\* datagram, at most one per iteration, and to the address that datagram was
\* sent from; an iteration that got none serves nothing and polls again.
C16_ReplyToSender ==
  /\ replies <= 1
  /\ (sent.for # "none" => lastDatagram # NoDatagram /\ sent.to = lastPeer)
  /\ (lastDatagram = NoDatagram =>
        /\ pc \in {"unstarted", "LoadDigitalTwin", "ReceiveAction", "Dispatch"}
        /\ replies = 0 /\ ticks = 0 /\ cmds = 0)

C16_Witness ==
  /\ pc = "ReceiveAction"
  /\ flushed
  /\ sent.for = "STEP"
  /\ replies = 1
  /\ sent.to = "b"
  /\ lastPeer = "b"

\* The store as a State carries it
StoreOf(s) == [f \in DOMAIN state |-> s[f]]

\* C20: from the moment the wait of WaitForSensorsThenSend completed until
\* SendState has sent, the control thread holds the mutex and no callback
\* changes the store: the State sent is the store as it was at that moment.
C20_SendUnderLock ==
  /\ (pc = "StepSend" =>
        /\ mutexOwner = "ctrl"
        /\ cb = IdleCb
        /\ woke = [state |-> state, src |-> src])
  /\ (sent.for = "STEP" =>
        /\ woke # NoState
        /\ StoreOf(sent) = woke.state
        /\ sent.src = woke.src)

C20_Witness ==
  /\ pc = "ReceiveAction"
  /\ sent.for = "STEP"
  /\ numSensorCallbacks > 0
  /\ imuQ # <<>>
  /\ StoreOf(sent) = woke.state

\* C18: a STEP is served in this order: arm, forward the motor command, one
\* tick, the wait until the counter is >= 0, then the stamp of simulation
\* time and status, then the send.
C18_StepOrder ==
  sent.for = "STEP" => log = <<"arm", "cmd", "tick", "wait", "stamp", "send">>

\* C19: the bootstrap loads the configuration, binds, subscribes, seeds the
\* store, inserts the digital twin, pauses the world and starts the
\* control-loop thread, in this order.
C19_BootOrder ==
  (loadVarsFailed = "none" /\ twin = "inserted") =>
    bootLog = <<"config", "bind", "subscribe", "seed", "twin", "pause", "start">>

\* The positions of the control loop inside the RESET branch of LoopThread
ResetPath == {"FlushSensors", "SettleCheck1", "SettleCheck2", "SettleCheck3",
              "SettleStep", "ResetStamp", "ResetSend"}

\* C21: every settle sequence ends with a SoftReset and no tick after it, so
\* the simulation time stamped into a RESET reply is the reset time, 0,
\* whatever the number of settle ticks made; and serving a RESET neither
\* arms the counter nor publishes a motor command.
C21_ResetReplyAtResetTime ==
  /\ pc \in {"ResetStamp", "ResetSend"} => simTime = 0
  /\ sent.for = "RESET" => (sent.sim_time = 0 /\ simTime = 0)
  /\ (pc \in ResetPath \/ sent.for = "RESET") =>
       (cmds = 0 /\ "arm" \notin Range(log) /\ "cmd" \notin Range(log))

C21_Witness ==
  /\ sent.for = "RESET"
  /\ ticks >= 2
  /\ sent.sim_time = 0
  /\ flushed

====
